---------------------------- MODULE Spec2Model ----------------------------
(***************************************************************************)
(* A model of src/app.py, the YouTube caption fetcher service.             *)
(*                                                                         *)
(* The service is stateless per request.  The state of the model is the    *)
(* most recent call of one of the service's operations: which operation,   *)
(* its arguments, the environment it ran in (the installed revision of the *)
(* caption library and what the caption source holds), the calls it made   *)
(* to the caption source, and its outcome.                                 *)
(*                                                                         *)
(* Python strings that the code inspects character by character (URLs,     *)
(* caption text, rendered timestamps) are sequences of one-character       *)
(* strings.  Language codes and exception messages, which the code only    *)
(* passes along, are TLA+ strings.                                         *)
(***************************************************************************)
EXTENDS Integers, Sequences, FiniteSets, TLC

VARIABLES op, args, env, calls, out

vars == <<op, args, env, calls, out>>

-----------------------------------------------------------------------------
(* Outcomes of a Python call: a returned value or a raised exception.      *)

Ok(v) == [kind |-> "ok", val |-> v]

Raise(cls, msg) == [kind |-> "raise", exc |-> [cls |-> cls, msg |-> msg]]

(* Optional JSON values: data.get(k) is None when the key is absent.       *)
None == [t |-> "none"]

StrV(s) == [t |-> "str", v |-> s]

IntV(i) == [t |-> "int", n |-> i]

(* Python truthiness of an optional string: None and "" are falsy.         *)
Truthy(x) == x.t = "str" /\ x.v # ""

-----------------------------------------------------------------------------
(* Character-level helpers.                                                *)

Upper == {"A", "B", "C", "D", "E", "F", "G", "H", "I", "J", "K", "L", "M",
          "N", "O", "P", "Q", "R", "S", "T", "U", "V", "W", "X", "Y", "Z"}

Lower == {"a", "b", "c", "d", "e", "f", "g", "h", "i", "j", "k", "l", "m",
          "n", "o", "p", "q", "r", "s", "t", "u", "v", "w", "x", "y", "z"}

Digit == {"0", "1", "2", "3", "4", "5", "6", "7", "8", "9"}

(* The character class [A-Za-z0-9_-] of the bare-id rule.                  *)
IdChars == Upper \cup Lower \cup Digit \cup {"_", "-"}

(* The characters str.strip() removes.                                     *)
Whitespace == {" ", "\n", "\t"}

StartsWith(s, p) == Len(s) >= Len(p) /\ SubSeq(s, 1, Len(p)) = p

EndsWith(s, p) == Len(s) >= Len(p) /\ SubSeq(s, Len(s) - Len(p) + 1, Len(s)) = p

Drop(s, n) == SubSeq(s, n + 1, Len(s))

(* Position of the first character of s that is in C; Len(s)+1 if none.    *)
FirstIn(s, C) ==
    IF \E i \in 1..Len(s) : s[i] \in C
    THEN CHOOSE i \in 1..Len(s) : s[i] \in C /\ \A j \in 1..(i - 1) : s[j] \notin C
    ELSE Len(s) + 1

(* The longest prefix of s with no character of C: a greedy [^C]* match.   *)
RunNotIn(s, C) == SubSeq(s, 1, FirstIn(s, C) - 1)

(* s.split(c, 1): the parts before and after the first c.                  *)
SplitFirst(s, c) ==
    LET i == FirstIn(s, {c})
    IN  [head |-> SubSeq(s, 1, i - 1), tail |-> SubSeq(s, i + 1, Len(s)),
         found |-> i <= Len(s)]

-----------------------------------------------------------------------------
(* extract_video_id                                                        *)

HTTP == <<"h", "t", "t", "p">>

SchemeSep == <<":", "/", "/">>

WWW == <<"w", "w", "w", ".">>

YoutuBe == <<"y", "o", "u", "t", "u", ".", "b", "e", "/">>

YoutubeCom == <<"y", "o", "u", "t", "u", "b", "e", ".", "c", "o", "m">>

WatchPath == <<"/", "w", "a", "t", "c", "h">>

EmbedPrefix == <<"/", "e", "m", "b", "e", "d", "/">>

IdStop == {"?", "&", "#", "/"}

(* re.match(r'^https?://(?:www\.)?youtu\.be/([^?&#/]+)', url): group 1, or *)
(* the empty sequence when the pattern does not match.                     *)
ShortLinkMatch(url) ==
    IF ~StartsWith(url, HTTP) THEN <<>>
    ELSE LET r1 == Drop(url, Len(HTTP))
             r2 == IF StartsWith(r1, <<"s">>) THEN Drop(r1, 1) ELSE r1
         IN  IF ~StartsWith(r2, SchemeSep) THEN <<>>
             ELSE LET r3 == Drop(r2, Len(SchemeSep))
                      r4 == IF StartsWith(r3, WWW) THEN Drop(r3, Len(WWW)) ELSE r3
                  IN  IF ~StartsWith(r4, YoutuBe) THEN <<>>
                      ELSE RunNotIn(Drop(r4, Len(YoutuBe)), IdStop)

(* urllib.parse.urlparse(url), for URLs without whitespace, ';' or '[':    *)
(* scheme up to the first ':' when it is letters, digits, '+', '-', '.'    *)
(* after a leading letter; netloc after '//' up to '/', '?' or '#'; then   *)
(* the fragment after the first '#' and the query after the first '?'.     *)
SchemeChars == Upper \cup Lower \cup Digit \cup {"+", "-", "."}

UrlParse(url) ==
    LET i == FirstIn(url, {":"})
        hasScheme == /\ i > 1
                     /\ i <= Len(url)
                     /\ url[1] \in Upper \cup Lower
                     /\ \A j \in 1..(i - 1) : url[j] \in SchemeChars
        u1 == IF hasScheme THEN Drop(url, i) ELSE url
        hasNetloc == StartsWith(u1, <<"/", "/">>)
        u2 == IF hasNetloc THEN Drop(u1, 2) ELSE u1
        netloc == IF hasNetloc THEN RunNotIn(u2, {"/", "?", "#"}) ELSE <<>>
        u3 == IF hasNetloc THEN Drop(u2, Len(netloc)) ELSE u1
        u4 == SplitFirst(u3, "#").head
        pq == SplitFirst(u4, "?")
    IN  [netloc |-> netloc, path |-> pq.head, query |-> pq.tail]

(* The unquoting parse_qs applies to names and values: '+' is a space.     *)
(* (Percent escapes are not modelled; no modelled URL holds a '%'.)        *)
PlusToSpace(s) == [k \in 1..Len(s) |-> IF s[k] = "+" THEN " " ELSE s[k]]

(* parse_qs(query)["v"]: the values of the fields named v, in order.  A    *)
(* field without '=' or with an empty value is dropped.                    *)
RECURSIVE QueryValuesOfV(_)
QueryValuesOfV(query) ==
    IF query = <<>> THEN <<>>
    ELSE LET fs == SplitFirst(query, "&")
             nv == SplitFirst(fs.head, "=")
             here == IF nv.found /\ nv.tail # <<>> /\ PlusToSpace(nv.head) = <<"v">>
                     THEN <<PlusToSpace(nv.tail)>>
                     ELSE <<>>
         IN  here \o QueryValuesOfV(fs.tail)

(* re.match(r'^/embed/([^/?&#]+)', path): group 1, or the empty sequence.  *)
EmbedMatch(path) ==
    IF StartsWith(path, EmbedPrefix)
    THEN RunNotIn(Drop(path, Len(EmbedPrefix)), IdStop)
    ELSE <<>>

(* re.match(r'^[A-Za-z0-9_-]{11}$', url): '$' also matches just before a   *)
(* trailing newline.                                                       *)
BareIdMatch(url) ==
    LET body == IF Len(url) = 12 /\ url[12] = "\n" THEN SubSeq(url, 1, 11) ELSE url
    IN  Len(body) = 11 /\ \A k \in 1..11 : body[k] \in IdChars

InvalidReferenceMsg == "Could not extract a valid YouTube video ID from the URL."

(* The rule that yields the result: 1 short link, 2 canonical, 3 embed,    *)
(* 4 bare id, 0 none.                                                      *)
extract_rule(url) ==
    LET parsed == UrlParse(url)
        onYoutube == EndsWith(parsed.netloc, YoutubeCom)
    IN  IF ShortLinkMatch(url) # <<>> THEN 1
        ELSE IF onYoutube /\ parsed.path = WatchPath
                /\ QueryValuesOfV(parsed.query) # <<>> THEN 2
        ELSE IF onYoutube /\ EmbedMatch(parsed.path) # <<>> THEN 3
        ELSE IF BareIdMatch(url) THEN 4
        ELSE 0

extract_by_rule(url, parsed, rule) ==
    CASE rule = 1 -> Ok(ShortLinkMatch(url))
      [] rule = 2 -> Ok(QueryValuesOfV(parsed.query)[1])
      [] rule = 3 -> Ok(EmbedMatch(parsed.path))
      [] rule = 4 -> Ok(url)
      [] OTHER    -> Raise("ValueError", InvalidReferenceMsg)

extract_video_id(url) == extract_by_rule(url, UrlParse(url), extract_rule(url))

-----------------------------------------------------------------------------
(* detect_api_mode                                                         *)
(*                                                                         *)
(* The installed caption library, as the probe sees it: what constructing  *)
(* YouTubeTranscriptApi() does ("ok", "TypeError" or "Error" for any other *)
(* exception), which attributes an instance has, and which static          *)
(* operations the class has.                                               *)

CtorOutcomes == {"ok", "TypeError", "Error"}

Libraries ==
    [ctor : CtorOutcomes, instList : BOOLEAN, instFetch : BOOLEAN,
     staticList : BOOLEAN, staticGet : BOOLEAN, toRaw : BOOLEAN]

(* YouTubeTranscriptApi()                                                  *)
Construct(lib) ==
    CASE lib.ctor = "ok"        -> Ok("inst")
      [] lib.ctor = "TypeError" -> Raise("TypeError", "constructor")
      [] OTHER                  -> Raise("Exception", "constructor")

Detected(mode, inst) == Ok([mode |-> mode, inst |-> inst])

(* The last resort, lines 52-56: construct again, "old" on any exception.  *)
detect_fallback(lib) ==
    IF Construct(lib).kind = "ok" THEN Detected("new", "inst")
    ELSE Detected("old", "None")

(* Lines 49-56: the static probe, then the last resort.                    *)
detect_static(lib) ==
    IF lib.staticList \/ lib.staticGet THEN Detected("old", "None")
    ELSE detect_fallback(lib)

(* Lines 42-47 catch TypeError only: any other exception of the first      *)
(* construction leaves the function.                                       *)
detect_api_mode(lib) ==
    LET first == Construct(lib)
    IN  IF first.kind = "ok"
        THEN IF lib.instList /\ lib.instFetch THEN Detected("new", "inst")
             ELSE detect_static(lib)
        ELSE IF first.exc.cls = "TypeError" THEN detect_static(lib)
        ELSE first

-----------------------------------------------------------------------------
(* fmt_time                                                                *)
(*                                                                         *)
(* A float number of seconds is an integer number of ticks, a fifth of a   *)
(* millisecond each: no offset is halfway between two milliseconds, where  *)
(* the float arithmetic of line 59 would decide the rounding.              *)

TicksPerSec == 5 * 1000

(* Python's round(): to the nearest integer, ties to the even one.         *)
RoundHalfEven(num, den) ==
    LET q == num \div den
        r == num % den
    IN  IF 2 * r < den THEN q
        ELSE IF 2 * r > den THEN q + 1
        ELSE IF q % 2 = 0 THEN q ELSE q + 1

DigitChar(d) ==
    CASE d = 0 -> "0" [] d = 1 -> "1" [] d = 2 -> "2" [] d = 3 -> "3"
      [] d = 4 -> "4" [] d = 5 -> "5" [] d = 6 -> "6" [] d = 7 -> "7"
      [] d = 8 -> "8" [] d = 9 -> "9"

RECURSIVE Decimal(_)
Decimal(n) == IF n < 10 THEN <<DigitChar(n)>> ELSE Decimal(n \div 10) \o <<DigitChar(n % 10)>>

RECURSIVE ZeroPad(_, _)
ZeroPad(s, width) == IF Len(s) >= width THEN s ELSE ZeroPad(<<"0">> \o s, width)

(* The format specs {n:02d} and {n:03d}: at least width digits.            *)
FormatD(n, width) == ZeroPad(Decimal(n), width)

(* ms = int(round((sec - int(sec)) * 1000))                                *)
fmt_ms(ticks) == RoundHalfEven((ticks % TicksPerSec) * 1000, TicksPerSec)

fmt_time(ticks) ==
    LET whole == ticks \div TicksPerSec
        ms == fmt_ms(ticks)
        s == whole % 60
        m == (whole \div 60) % 60
        h == whole \div 3600
    IN  FormatD(h, 2) \o <<":">> \o FormatD(m, 2) \o <<":">> \o FormatD(s, 2)
            \o <<".">> \o FormatD(ms, 3)

-----------------------------------------------------------------------------
(* join_items_raw                                                          *)

(* str.strip()                                                             *)
Strip(s) ==
    IF \A k \in 1..Len(s) : s[k] \in Whitespace THEN <<>>
    ELSE LET i == CHOOSE k \in 1..Len(s) :
                      s[k] \notin Whitespace /\ \A j \in 1..(k - 1) : s[j] \in Whitespace
             e == CHOOSE k \in 1..Len(s) :
                      s[k] \notin Whitespace /\ \A j \in (k + 1)..Len(s) : s[j] \in Whitespace
         IN  SubSeq(s, i, e)

(* "\n".join(lines)                                                        *)
RECURSIVE JoinLines(_)
JoinLines(lines) ==
    IF lines = <<>> THEN <<>>
    ELSE IF Len(lines) = 1 THEN lines[1]
    ELSE lines[1] \o <<"\n">> \o JoinLines(Tail(lines))

Dash == <<" ", "-", " ">>

(* One element of the list comprehension of lines 67-71 / 73.              *)
item_line(it, with_timestamps) ==
    IF with_timestamps THEN Strip(fmt_time(it.start) \o Dash \o it.text)
    ELSE Strip(it.text)

RECURSIVE item_lines(_, _)
item_lines(items, with_timestamps) ==
    IF items = <<>> THEN <<>>
    ELSE (IF Strip(items[1].text) # <<>>
          THEN <<item_line(items[1], with_timestamps)>>
          ELSE <<>>) \o item_lines(Tail(items), with_timestamps)

join_items_raw(items, with_timestamps) ==
    Strip(JoinLines(item_lines(items, with_timestamps)))

-----------------------------------------------------------------------------
(* The caption source, as the handlers use it.                             *)
(*                                                                         *)
(* A source holds the tracks of the requested video, in the order the      *)
(* library iterates them (manually created before generated), and may fail *)
(* one of its operations with an exception.  Both revisions of the library *)
(* reach the same source.                                                  *)

(* Exceptions the library raises that lines 127/204 name.                  *)
NotAvailableClasses == {"TranscriptsDisabled", "VideoUnavailable", "NoTranscriptFound"}

(* The subclasses of Exception that occur in the model.                    *)
ExceptionClasses ==
    NotAvailableClasses \cup
    {"ValueError", "TypeError", "IndexError", "AttributeError", "BadRequest", "Exception"}

Call(name, arg) == [op |-> name, arg |-> arg]

(* api.list(video_id) / YouTubeTranscriptApi.list_transcripts(video_id)    *)
ListCall(video_id) == <<Call("list", [video_id |-> video_id])>>

(* TranscriptList.find_transcript([lang]) of the library: the manually     *)
(* created track with exactly that language code, else the generated one,  *)
(* else NoTranscriptFound.  The code hands lang over as received.          *)
find_transcript(tracks, lang) ==
    LET manual == {k \in 1..Len(tracks) : ~tracks[k].generated /\ tracks[k].code = lang}
        auto == {k \in 1..Len(tracks) : tracks[k].generated /\ tracks[k].code = lang}
    IN  IF manual # {} THEN Ok(tracks[CHOOSE k \in manual : \A j \in manual : k <= j])
        ELSE IF auto # {} THEN Ok(tracks[CHOOSE k \in auto : \A j \in auto : k <= j])
        ELSE Raise("NoTranscriptFound", "no transcript for the requested languages")

(* Transcript.translate(to): the track in the target language.             *)
translate(track, to) ==
    [track EXCEPT !.code = to, !.translated = TRUE,
                  !.segs = [k \in 1..Len(track.segs) |->
                               [track.segs[k] EXCEPT !.text = <<"~">> \o track.segs[k].text]]]

SrcList(src) == IF src.fail.at = "list" THEN [kind |-> "raise", exc |-> src.fail.exc]
                ELSE Ok(src.tracks)

SrcTranslate(src, track, to) ==
    IF src.fail.at = "translate" THEN [kind |-> "raise", exc |-> src.fail.exc]
    ELSE Ok(translate(track, to))

SrcFetch(src, track) ==
    IF src.fail.at = "fetch" THEN [kind |-> "raise", exc |-> src.fail.exc]
    ELSE Ok(track.segs)

(* api.fetch(id, languages) and get_transcript(id, languages) of the       *)
(* library: list, find_transcript, fetch.                                  *)
SrcFetchDirect(src, lang) ==
    LET listed == SrcList(src)
    IN  IF listed.kind = "raise" THEN listed
        ELSE LET found == find_transcript(listed.val, lang)
             IN  IF found.kind = "raise" THEN found ELSE SrcFetch(src, found.val)

(* ts[index] on a Python list: negative indices count from the end; an     *)
(* index that is no integer is a TypeError.                                *)
PyIndex(ts, index) ==
    LET n == Len(ts)
    IN  IF index.t # "int" THEN Raise("TypeError", "list indices must be integers")
        ELSE IF 0 <= index.n /\ index.n < n THEN Ok(ts[index.n + 1])
        ELSE IF -n <= index.n /\ index.n < 0 THEN Ok(ts[n + index.n + 1])
        ELSE Raise("IndexError", "list index out of range")

(* fetched.to_raw_data(): the snippets as dicts.                           *)
to_raw_data(fetched) ==
    [k \in 1..Len(fetched) |->
        [text |-> fetched[k].text, start |-> fetched[k].start,
         duration |-> fetched[k].duration]]

(* Lines 151-154 / 171-174 without to_raw_data: text and start by getattr. *)
raw_from_attrs(fetched) ==
    [k \in 1..Len(fetched) |-> [text |-> fetched[k].text, start |-> fetched[k].start]]

raw_of(lib, fetched) == IF lib.toRaw THEN to_raw_data(fetched) ELSE raw_from_attrs(fetched)

Body(cs, res) == [calls |-> cs, res |-> res]

NoAttr(name) == Raise("AttributeError", name)

-----------------------------------------------------------------------------
(* fetch_transcript, lines 147-196, after extraction and detection.        *)

is_direct(req) == req.index = None /\ req.translate = None /\ Truthy(req.lang)

(* selected.fetch(), lines 170 and 195.                                    *)
fetch_track(src, track, cs) ==
    Body(Append(cs, Call("fetch", [track |-> track.code])), SrcFetch(src, track))

(* Line 150 / 179: one call that lists, finds and fetches.                 *)
direct_fetch(src, video_id, lang) ==
    Body(<<Call("fetch_direct", [video_id |-> video_id, languages |-> <<lang>>])>>,
         SrcFetchDirect(src, lang))

(* Revision B, lines 147-175. *)

(* Lines 160-165: index, else language, else the first track.              *)
select_new(ts, req) ==
    IF req.index # None THEN PyIndex(ts, req.index)
    ELSE IF Truthy(req.lang) THEN find_transcript(ts, req.lang.v)
    ELSE PyIndex(ts, IntV(0))

fetch_translated_new(src, tr, cs) ==
    IF tr.kind = "raise" THEN Body(cs, tr) ELSE fetch_track(src, tr.val, cs)

(* Lines 167-170 without the translation: the selected track is fetched.   *)
translate_new_skipped(src, selected, req, cs) ==
    IF selected.kind = "raise" THEN Body(cs, selected)
    ELSE fetch_track(src, selected.val, cs)

(* Lines 167-170: translate when asked, then fetch.                        *)
translate_new(src, selected, req, cs) ==
    IF selected.kind = "raise" THEN Body(cs, selected)
    ELSE IF Truthy(req.translate)
    THEN fetch_translated_new(src, SrcTranslate(src, selected.val, req.translate.v),
                              Append(cs, Call("translate", [to |-> req.translate.v])))
    ELSE fetch_track(src, selected.val, cs)

(* Lines 157-170.                                                          *)
listed_new(src, tlist, req, cs) ==
    IF tlist.kind = "raise" THEN Body(cs, tlist)
    ELSE translate_new(src, select_new(tlist.val, req), req, cs)

(* Lines 151-155 and 171-175.                                              *)
render_new(lib, f, req) ==
    IF f.res.kind = "raise" THEN f
    ELSE Body(f.calls, Ok(join_items_raw(raw_of(lib, f.res.val), req.timestamps)))

fetch_new(lib, src, video_id, req) ==
    IF is_direct(req)
    THEN IF ~lib.instFetch THEN Body(<<>>, NoAttr("fetch"))
         ELSE render_new(lib, direct_fetch(src, video_id, req.lang.v), req)
    ELSE IF ~lib.instList THEN Body(<<>>, NoAttr("list"))
         ELSE render_new(lib, listed_new(src, SrcList(src), req, ListCall(video_id)), req)

(* Revision A, lines 176-196.  The static operations return the segments   *)
(* as dicts.                                                               *)

(* Lines 185-190.                                                          *)
select_old(ts, req) ==
    IF req.index # None THEN PyIndex(ts, req.index)
    ELSE IF Truthy(req.lang) THEN find_transcript(ts, req.lang.v)
    ELSE PyIndex(ts, IntV(0))

fetch_translated_old(src, tr, cs) ==
    IF tr.kind = "raise" THEN Body(cs, tr) ELSE fetch_track(src, tr.val, cs)

(* Lines 192-195.                                                          *)
translate_old(src, selected, req, cs) ==
    IF selected.kind = "raise" THEN Body(cs, selected)
    ELSE IF Truthy(req.translate)
    THEN fetch_translated_old(src, SrcTranslate(src, selected.val, req.translate.v),
                              Append(cs, Call("translate", [to |-> req.translate.v])))
    ELSE fetch_track(src, selected.val, cs)

(* Lines 182-195.                                                          *)
listed_old(src, transcripts, req, cs) ==
    IF transcripts.kind = "raise" THEN Body(cs, transcripts)
    ELSE translate_old(src, select_old(transcripts.val, req), req, cs)

(* Lines 180 and 196.                                                      *)
render_old(f, req) ==
    IF f.res.kind = "raise" THEN f
    ELSE Body(f.calls, Ok(join_items_raw(f.res.val, req.timestamps)))

(* Revision A taking the direct path whenever a language code is given,    *)
(* index or translation target or not.                                     *)
fetch_old_language_first(lib, src, video_id, req) ==
    IF Truthy(req.lang)
    THEN IF ~lib.staticGet THEN Body(<<>>, NoAttr("get_transcript"))
         ELSE render_old(direct_fetch(src, video_id, req.lang.v), req)
    ELSE IF ~lib.staticList THEN Body(<<>>, NoAttr("list_transcripts"))
         ELSE render_old(listed_old(src, SrcList(src), req, ListCall(video_id)), req)

fetch_old(lib, src, video_id, req) ==
    IF is_direct(req)
    THEN IF ~lib.staticGet THEN Body(<<>>, NoAttr("get_transcript"))
         ELSE render_old(direct_fetch(src, video_id, req.lang.v), req)
    ELSE IF ~lib.staticList THEN Body(<<>>, NoAttr("list_transcripts"))
         ELSE render_old(listed_old(src, SrcList(src), req, ListCall(video_id)), req)

fetch_by_mode(mode, lib, src, video_id, req) ==
    IF mode = "new" THEN fetch_new(lib, src, video_id, req)
    ELSE fetch_old(lib, src, video_id, req)

-----------------------------------------------------------------------------
(* list_transcripts, lines 102-119, after extraction and detection.        *)

descriptors(tracks) ==
    [k \in 1..Len(tracks) |->
        [index |-> k - 1, code |-> tracks[k].code, name |-> tracks[k].language,
         is_auto |-> tracks[k].generated]]

described(listed, cs) ==
    IF listed.kind = "raise" THEN Body(cs, listed) ELSE Body(cs, Ok(descriptors(listed.val)))

(* Lines 103-110.                                                          *)
list_new(lib, src, video_id) ==
    IF ~lib.instList THEN Body(<<>>, NoAttr("list"))
    ELSE described(SrcList(src), ListCall(video_id))

(* Lines 112-119.                                                          *)
list_old(lib, src, video_id) ==
    IF ~lib.staticList THEN Body(<<>>, NoAttr("list_transcripts"))
    ELSE described(SrcList(src), ListCall(video_id))

list_by_mode(mode, lib, src, video_id) ==
    IF mode = "new" THEN list_new(lib, src, video_id) ELSE list_old(lib, src, video_id)

-----------------------------------------------------------------------------
(* The two handlers: the try block and its except clauses.                 *)

(* request.json and the data.get calls of lines 94-95 / 137-142.  A body   *)
(* that is JSON null has no get; a body that is no JSON raises BadRequest. *)
read_request(body) ==
    CASE body.kind = "dict"  -> Ok(body.fields)
      [] body.kind = "null"  -> NoAttr("get")
      [] OTHER               -> Raise("BadRequest", "not JSON")

(* extract_video_id on what data.get('url', '') gave: re.match on a value  *)
(* that is no string is a TypeError.                                       *)
extract_from(url) ==
    IF url.t = "str" THEN extract_video_id(url.v)
    ELSE Raise("TypeError", "expected string or bytes-like object")

(* The value of the try block: the payload with the video id.              *)
with_video_id(b, video_id) ==
    IF b.res.kind = "raise" THEN b
    ELSE Body(b.calls, Ok([video_id |-> video_id, payload |-> b.res.val]))

(* Lines 100-119 / 147-196: the body for the detected mode.                *)
after_detect(det, video_id, req, e, handler) ==
    IF det.kind = "raise" THEN Body(<<>>, det)
    ELSE IF handler = "fetch"
    THEN with_video_id(fetch_by_mode(det.val.mode, e.lib, e.src, video_id, req), video_id)
    ELSE with_video_id(list_by_mode(det.val.mode, e.lib, e.src, video_id), video_id)

(* Line 98 / 145.                                                          *)
after_extract(vid, req, e, handler) ==
    IF vid.kind = "raise" THEN Body(<<>>, vid)
    ELSE after_detect(detect_api_mode(e.lib), vid.val, req, e, handler)

(* Line 97 / 144.                                                          *)
after_read(data, e, handler) ==
    IF data.kind = "raise" THEN Body(<<>>, data)
    ELSE after_extract(extract_from(data.val.url), data.val, e, handler)

(* Lines 94-125 / 137-202.                                                 *)
try_block(body, e, handler) == after_read(read_request(body), e, handler)

Failure(status, prefix, msg) ==
    [fault |-> FALSE, status |-> status,
     json |-> [success |-> FALSE, error |-> [prefix |-> prefix, msg |-> msg]]]

CatchAllPrefix(handler) ==
    IF handler = "fetch" THEN "Failed to fetch transcript: " ELSE "Failed to list transcripts: "

(* The except clauses without the last one, "except Exception".            *)
except_clauses_without_catch_all(exc, handler) ==
    IF exc.cls \in NotAvailableClasses THEN Failure(400, "", exc.msg)
    ELSE IF exc.cls = "ValueError" THEN Failure(400, "", exc.msg)
    ELSE [fault |-> TRUE, exc |-> exc]

(* Lines 127-132 / 204-209.                                                *)
except_clauses(exc, handler) ==
    IF exc.cls \in NotAvailableClasses THEN Failure(400, "", exc.msg)
    ELSE IF exc.cls = "ValueError" THEN Failure(400, "", exc.msg)
    ELSE IF exc.cls \in ExceptionClasses THEN Failure(500, CatchAllPrefix(handler), exc.msg)
    ELSE [fault |-> TRUE, exc |-> exc]

(* Lines 121-125 / 198-202.                                                *)
success_response(val, handler) ==
    [fault |-> FALSE, status |-> 200,
     json |-> IF handler = "fetch"
              THEN [success |-> TRUE, transcript |-> val.payload, video_id |-> val.video_id]
              ELSE [success |-> TRUE, video_id |-> val.video_id, transcripts |-> val.payload]]

respond(b, handler) ==
    IF b.res.kind = "ok" THEN success_response(b.res.val, handler)
    ELSE except_clauses(b.res.exc, handler)

-----------------------------------------------------------------------------
(* Inputs.                                                                 *)

MaxIdLen == 12

MaxTracks == 2

MaxItems == 2

MaxTextLen == 2

(* Candidate identifiers: the prefixes of a 14-character run of id         *)
(* characters, and runs of 11 with a character outside the class.          *)
IdBase == <<"d", "Q", "w", "4", "w", "9", "W", "g", "X", "c", "Q", "Z", "9", "k">>

VideoId11 == SubSeq(IdBase, 1, 11)

Ids ==
    {SubSeq(IdBase, 1, k) : k \in 0..MaxIdLen} \cup
    {SubSeq(IdBase, 1, 10) \o <<c>> : c \in {"!", ".", "+"}}

Schemes == {<<>>, HTTP \o SchemeSep, HTTP \o <<"s">> \o SchemeSep, <<"f", "t", "p">> \o SchemeSep}

Hosts ==
    {<<"y", "o", "u", "t", "u", ".", "b", "e">>,
     WWW \o <<"y", "o", "u", "t", "u", ".", "b", "e">>,
     YoutubeCom,
     WWW \o YoutubeCom,
     <<"n", "o", "t">> \o YoutubeCom,
     <<"e", "x", "a", "m", "p", "l", "e", ".", "c", "o", "m">>}

VEq == <<"v", "=">>

TEq5 == <<"t", "=", "5">>

PathForms(id) ==
    {<<"/">> \o id,
     WatchPath \o <<"?">> \o VEq \o id,
     WatchPath \o <<"?">> \o VEq \o id \o <<"&">> \o TEq5,
     WatchPath \o <<"?">> \o TEq5 \o <<"&">> \o VEq \o id,
     WatchPath \o <<"?">> \o VEq \o id \o <<"#">> \o TEq5,
     WatchPath \o <<"/">> \o <<"?">> \o VEq \o id,
     EmbedPrefix \o id,
     EmbedPrefix \o id \o <<"?">> \o TEq5,
     <<"/", "v", "/">> \o id}

UrlShortValid == HTTP \o <<"s">> \o SchemeSep \o YoutuBe \o VideoId11

UrlShortTruncated == HTTP \o <<"s">> \o SchemeSep \o YoutuBe \o SubSeq(IdBase, 1, 3)

UrlNotAUrl == <<"n", "o", "t", " ", "a", " ", "u", "r", "l">>

Urls ==
    {sch \o host \o form : sch \in Schemes, host \in Hosts,
                           form \in UNION {PathForms(id) : id \in Ids}} \cup
    Ids \cup {id \o <<"\n">> : id \in Ids} \cup
    {HTTP \o <<"s">> \o SchemeSep \o YoutuBe \o id \o <<"\n">> : id \in Ids} \cup
    {UrlNotAUrl}

(* Start offsets, in ticks: every fraction of a second after a few whole   *)
(* numbers of seconds.                                                     *)
WholeSeconds == {0, 3599, 3661, 360000}

Offsets == {w * TicksPerSec + f : w \in WholeSeconds, f \in 0..(TicksPerSec - 1)}

(* 3661.25 seconds.                                                        *)
OffsetSample == 3661 * TicksPerSec + TicksPerSec \div 4

(* Caption texts and segment lists for the renderer.                       *)
TextChars == {" ", "a", "\n"}

Texts == UNION {[1..n -> TextChars] : n \in 0..MaxTextLen}

Items == UNION {[1..n -> [text : Texts, start : {OffsetSample}]] : n \in 0..MaxItems}

(* The tracks of the modelled video.                                       *)
Seg(text, start) == [text |-> text, start |-> start, duration |-> TicksPerSec]

EnManual ==
    [code |-> "en", language |-> "English", generated |-> FALSE, translated |-> FALSE,
     segs |-> <<Seg(<<"h", "i">>, OffsetSample), Seg(<<" ">>, 0)>>]

FrManual ==
    [code |-> "fr", language |-> "French", generated |-> FALSE, translated |-> FALSE,
     segs |-> <<Seg(<<"o", "u", "i">>, 0)>>]

EnAuto ==
    [code |-> "en", language |-> "English (auto-generated)", generated |-> TRUE,
     translated |-> FALSE,
     segs |-> <<Seg(<<"h", "e", "y", " ">>, TicksPerSec), Seg(<<"y", "o">>, 2 * TicksPerSec)>>]

ManualParts == {<<>>, <<EnManual>>, <<FrManual>>, <<EnManual, FrManual>>, <<FrManual, EnManual>>}

AutoParts == {<<>>, <<EnAuto>>}

TrackLists == {m \o a : m \in ManualParts, a \in AutoParts} \cap
              UNION {[1..n -> {EnManual, FrManual, EnAuto}] : n \in 0..MaxTracks}

(* Exceptions the source may raise.                                        *)
SourceExceptions ==
    {[cls |-> c, msg |-> "not available"] : c \in NotAvailableClasses} \cup
    {[cls |-> "Exception", msg |-> m] :
        m \in {"429 Client Error", "Too Many Requests", "connection reset"}}

NoFail == [at |-> "none"]

Failures == [at : {"list", "translate", "fetch"}, exc : SourceExceptions]

Sources ==
    [tracks : TrackLists, fail : {NoFail}] \cup
    [tracks : {<<EnManual, EnAuto>>}, fail : Failures]

(* The revisions of the library: B with and without to_raw_data, A; and    *)
(* installations whose probe goes another way.                             *)
RevisionB ==
    [ctor |-> "ok", instList |-> TRUE, instFetch |-> TRUE,
     staticList |-> FALSE, staticGet |-> FALSE, toRaw |-> TRUE]

RevisionA ==
    [ctor |-> "ok", instList |-> FALSE, instFetch |-> FALSE,
     staticList |-> TRUE, staticGet |-> TRUE, toRaw |-> FALSE]

WorkingLibraries == {RevisionB, [RevisionB EXCEPT !.toRaw = FALSE], RevisionA}

OddLibraries ==
    {[RevisionB EXCEPT !.ctor = "Error"],
     [RevisionA EXCEPT !.ctor = "TypeError"],
     [RevisionA EXCEPT !.staticList = FALSE, !.staticGet = FALSE]}

Envs ==
    [lib : WorkingLibraries, src : Sources] \cup
    [lib : OddLibraries, src : {[tracks |-> <<EnManual, EnAuto>>, fail |-> NoFail]}]

(* Request bodies.                                                         *)
Langs == {None, StrV(""), StrV("en"), StrV("EN"), StrV("fr")}

Indexes == {None, StrV("1")} \cup {IntV(i) : i \in (0 - MaxTracks - 1)..MaxTracks}

Translates == {None, StrV(""), StrV("es")}

DefaultFields(url) ==
    [url |-> url, lang |-> None, index |-> None, translate |-> None, timestamps |-> FALSE]

FetchBodies ==
    {[kind |-> "dict", fields |-> f] :
        f \in [url : {StrV(UrlShortValid)}, lang : Langs, index : Indexes,
               translate : Translates, timestamps : BOOLEAN]} \cup
    {[kind |-> "dict", fields |-> DefaultFields(u)] :
        u \in {StrV(UrlShortTruncated), StrV(UrlNotAUrl), StrV(<<>>), IntV(5)}} \cup
    {[kind |-> "null"], [kind |-> "invalid"]}

ListBodies ==
    {[kind |-> "dict", fields |-> DefaultFields(u)] :
        u \in {StrV(UrlShortValid), StrV(UrlShortTruncated), StrV(UrlNotAUrl), StrV(<<>>),
               IntV(5)}} \cup
    {[kind |-> "null"], [kind |-> "invalid"]}

-----------------------------------------------------------------------------
(* The state machine.                                                      *)

NoEnv == [installed |-> "none"]

Init ==
    /\ op = "idle"
    /\ args = None
    /\ env = NoEnv
    /\ calls = <<>>
    /\ out = None

ExtractVideoId ==
    /\ op = "idle"
    /\ \E url \in Urls :
        /\ op' = "extract_video_id"
        /\ args' = [url |-> url]
        /\ out' = [extracted |-> extract_video_id(url)]
    /\ UNCHANGED <<env, calls>>

DetectApiMode ==
    /\ op = "idle"
    /\ \E lib \in Libraries :
        /\ op' = "detect_api_mode"
        /\ env' = [lib |-> lib]
        /\ out' = [detected |-> detect_api_mode(lib)]
    /\ UNCHANGED <<args, calls>>

FmtTime ==
    /\ op = "idle"
    /\ \E sec \in Offsets :
        /\ op' = "fmt_time"
        /\ args' = [sec |-> sec]
        /\ out' = [text |-> fmt_time(sec)]
    /\ UNCHANGED <<env, calls>>

JoinItemsRaw ==
    /\ op = "idle"
    /\ \E items \in Items, with_timestamps \in BOOLEAN :
        /\ op' = "join_items_raw"
        /\ args' = [items |-> items, with_timestamps |-> with_timestamps]
        /\ out' = [text |-> join_items_raw(items, with_timestamps)]
    /\ UNCHANGED <<env, calls>>

ListTranscripts ==
    /\ op = "idle"
    /\ \E body \in ListBodies, e \in Envs :
        \E b \in {try_block(body, e, "list")} :
            /\ op' = "list_transcripts"
            /\ args' = body
            /\ env' = e
            /\ calls' = b.calls
            /\ out' = respond(b, "list")

FetchTranscript ==
    /\ op = "idle"
    /\ \E body \in FetchBodies, e \in Envs :
        \E b \in {try_block(body, e, "fetch")} :
            /\ op' = "fetch_transcript"
            /\ args' = body
            /\ env' = e
            /\ calls' = b.calls
            /\ out' = respond(b, "fetch")

(* The call is over; the service keeps nothing of it.                      *)
Return ==
    /\ op # "idle"
    /\ op' = "idle"
    /\ args' = None
    /\ env' = NoEnv
    /\ calls' = <<>>
    /\ out' = None

Next ==
    \/ ExtractVideoId
    \/ DetectApiMode
    \/ FmtTime
    \/ JoinItemsRaw
    \/ ListTranscripts
    \/ FetchTranscript
    \/ Return

Spec == Init /\ [][Next]_vars

-----------------------------------------------------------------------------
(* Properties.                                                             *)

Handlers == {"list_transcripts", "fetch_transcript"}

HandlerOf(o) == IF o = "fetch_transcript" THEN "fetch" ELSE "list"

OpsOf(cs) == [k \in 1..Len(cs) |-> cs[k].op]

(* A handler call whose request named a video and whose library probe      *)
(* found a complete revision: the call reached the caption source.         *)
ReachedSource ==
    /\ op \in Handlers
    /\ args.kind = "dict"
    /\ args.fields.url = StrV(UrlShortValid)
    /\ env.lib \in WorkingLibraries

SuccessShape(r) ==
    /\ r.status = 200
    /\ r.json.success = TRUE
    /\ \/ DOMAIN r.json = {"success", "transcript", "video_id"}
       \/ DOMAIN r.json = {"success", "transcripts", "video_id"}

FailureShape(r) ==
    /\ r.status \in {400, 500}
    /\ r.json.success = FALSE
    /\ DOMAIN r.json = {"success", "error"}

(* C1: every ListTracks or FetchTranscript request, whatever the body and  *)
(* whatever the caption source raises, returns exactly one result, either  *)
(* a success (flag true, payload, no error) or a failure (flag false,      *)
(* error, no payload); no failure leaves the handler uncaught.             *)
C1_TaggedResult ==
    op \in Handlers =>
        /\ ~out.fault
        /\ SuccessShape(out) \/ FailureShape(out)
        /\ ~(SuccessShape(out) /\ FailureShape(out))

(* C1's case: the source failed in the middle of a fetch request (after    *)
(* list, in translate) and the caller got a failure result.                *)
C1_Witness ==
    /\ op = "fetch_transcript"
    /\ ReachedSource
    /\ env.src.fail.at = "translate"
    /\ OpsOf(calls) = <<"list", "translate">>
    /\ FailureShape(out)

(* C2: every value extract_video_id returns is a string of exactly 11      *)
(* characters of [A-Za-z0-9_-].                                            *)
C2_ExtractedIdIsValid ==
    (op = "extract_video_id" /\ out.extracted.kind = "ok") =>
        /\ Len(out.extracted.val) = 11
        /\ \A k \in 1..Len(out.extracted.val) : out.extracted.val[k] \in IdChars

ExplicitIndex == ReachedSource /\ op = "fetch_transcript" /\ args.fields.index.t = "int"

(* C3: in FetchTranscript with a listed track list of length n, an         *)
(* explicit index outside 0..n-1 (negative ones included) fails with a     *)
(* failure that is not of the generic class of unknown failures, and       *)
(* nothing is translated or fetched; an index in 0..n-1 selects the track  *)
(* at that position.                                                       *)
C3_IndexOutOfRangeIsSelectionError ==
    (ExplicitIndex /\ env.src.fail = NoFail) =>
        LET i == args.fields.index.n
            n == Len(env.src.tracks)
        IN  IF 0 <= i /\ i < n
            THEN /\ out.status = 200
                 /\ calls[Len(calls)] =
                        Call("fetch", [track |-> IF Truthy(args.fields.translate)
                                                 THEN args.fields.translate.v
                                                 ELSE env.src.tracks[i + 1].code])
            ELSE /\ FailureShape(out)
                 /\ out.status # 500
                 /\ OpsOf(calls) = <<"list">>

RateLimitMessages == {"429 Client Error", "Too Many Requests"}

(* C4: a source failure whose message holds an HTTP 429 indicator or "Too  *)
(* Many Requests" gives a result of a class of its own, neither the class  *)
(* of TranscriptsDisabled/VideoUnavailable/NoTranscriptFound (400) nor the *)
(* generic class of all other source failures (500).                       *)
C4_RateLimitedIsDistinct ==
    (/\ ReachedSource
     /\ env.src.fail # NoFail
     /\ env.src.fail.exc.msg \in RateLimitMessages
     /\ out.json.success = FALSE
     /\ out.json.error.msg = env.src.fail.exc.msg) =>
        out.status \notin {400, 500}

(* C5: detect_api_mode never raises: for every library it returns          *)
(* ("new", instance) or ("old", None).                                     *)
C5_DetectNeverRaises ==
    op = "detect_api_mode" =>
        /\ out.detected.kind = "ok"
        /\ out.detected.val \in
               {[mode |-> "new", inst |-> "inst"], [mode |-> "old", inst |-> "None"]}

(* The track a successful list-path request selected, by lines 160-165.    *)
SelectedTrack(tracks, req) ==
    IF req.index # None THEN PyIndex(tracks, req.index).val
    ELSE IF Truthy(req.lang) THEN find_transcript(tracks, req.lang.v).val
    ELSE tracks[1]

Rendered(segs, with_timestamps) ==
    join_items_raw([k \in 1..Len(segs) |-> [text |-> segs[k].text, start |-> segs[k].start]],
                   with_timestamps)

(* C6: in a successful FetchTranscript the calls to the source are either  *)
(* one direct fetch(id, [lang]), only when a language code and neither an  *)
(* index nor a translation target was given; or list, then translate       *)
(* exactly once if and only if translateTo is set (a non-empty target),    *)
(* then fetch; and when translateTo is set the rendered segments are those *)
(* of the translated track.                                                *)
C6_CallSequence ==
    (op = "fetch_transcript" /\ out.status = 200) =>
        LET req == args.fields
        IN  \/ /\ OpsOf(calls) = <<"fetch_direct">>
               /\ calls[1].arg = [video_id |-> out.json.video_id, languages |-> <<req.lang.v>>]
               /\ Truthy(req.lang)
               /\ req.index = None
               /\ req.translate = None
            \/ /\ ~Truthy(req.translate)
               /\ OpsOf(calls) = <<"list", "fetch">>
            \/ /\ Truthy(req.translate)
               /\ OpsOf(calls) = <<"list", "translate", "fetch">>
               /\ calls[2].arg = [to |-> req.translate.v]
               /\ calls[3].arg = [track |-> req.translate.v]
               /\ out.json.transcript =
                      Rendered(translate(SelectedTrack(env.src.tracks, req),
                                         req.translate.v).segs,
                               req.timestamps)

(* C6's case: a track chosen by index is translated and then fetched.      *)
C6_Witness ==
    /\ op = "fetch_transcript"
    /\ out.status = 200
    /\ args.fields.index = IntV(1)
    /\ args.fields.lang = StrV("fr")
    /\ OpsOf(calls) = <<"list", "translate", "fetch">>
    /\ out.json.transcript # <<>>

(* str.lower() on the language codes of the model.                         *)
LowerCode(c) == IF c = "EN" THEN "en" ELSE c

(* The selection policy of the specification: index, else the first track  *)
(* whose code equals the language code case-insensitively, else the first  *)
(* track.  0 when there is no such track.                                  *)
PolicyPosition(tracks, req) ==
    IF req.index # None
    THEN IF 0 <= req.index.n /\ req.index.n < Len(tracks) THEN req.index.n + 1 ELSE 0
    ELSE IF Truthy(req.lang)
    THEN LET hits == {k \in 1..Len(tracks) : LowerCode(tracks[k].code) = LowerCode(req.lang.v)}
         IN  IF hits = {} THEN 0 ELSE CHOOSE k \in hits : \A j \in hits : k <= j
    ELSE IF Len(tracks) > 0 THEN 1 ELSE 0

(* C7: selection follows index > language code > default in both           *)
(* revisions; a language code selects the first track whose code equals it *)
(* case-insensitively, and the request fails when none does.  (Stated for  *)
(* requests whose index, if any, is in range and whose source does not     *)
(* fail.)                                                                  *)
C7_SelectionPolicy ==
    (/\ ReachedSource
     /\ op = "fetch_transcript"
     /\ env.src.fail = NoFail
     /\ args.fields.index.t \in {"none", "int"}
     /\ args.fields.index.t = "int" =>
            (0 <= args.fields.index.n /\ args.fields.index.n < Len(env.src.tracks))) =>
        LET req == args.fields
            pos == PolicyPosition(env.src.tracks, req)
            track == env.src.tracks[pos]
        IN  IF pos = 0 THEN out.json.success = FALSE
            ELSE /\ out.status = 200
                 /\ out.json.transcript =
                        Rendered(IF Truthy(req.translate)
                                 THEN translate(track, req.translate.v).segs
                                 ELSE track.segs,
                                 req.timestamps)

(* The rendering of the specification: blank segments dropped, each other  *)
(* text trimmed and, with timestamps, prefixed by "<timestamp> - ".        *)
RECURSIVE PolicyLines(_, _)
PolicyLines(items, with_timestamps) ==
    IF items = <<>> THEN <<>>
    ELSE (IF Strip(items[1].text) = <<>> THEN <<>>
          ELSE IF with_timestamps
          THEN <<fmt_time(items[1].start) \o Dash \o Strip(items[1].text)>>
          ELSE <<Strip(items[1].text)>>) \o PolicyLines(Tail(items), with_timestamps)

(* C8: join_items_raw equals the reference rendering for every segment     *)
(* list; a text with leading whitespace gives the same line as its trimmed *)
(* form, with and without timestamps.                                      *)
C8_RenderMatchesPolicy ==
    op = "join_items_raw" =>
        out.text = Strip(JoinLines(PolicyLines(args.items, args.with_timestamps)))

IsDigits(s) == \A k \in 1..Len(s) : s[k] \in Digit

(* C9: fmt_time(sec) has the form HH:MM:SS.mmm: at least two digits of     *)
(* hours, two of minutes and of seconds (00..59, first digit at most 5),   *)
(* and exactly three of milliseconds.                                      *)
C9_TimestampForm ==
    op = "fmt_time" =>
        LET t == out.text
            n == Len(out.text)
        IN  /\ n >= 12
            /\ IsDigits(SubSeq(t, n - 2, n))
            /\ t[n - 3] = "."
            /\ IsDigits(SubSeq(t, n - 5, n - 4))
            /\ t[n - 5] \in {"0", "1", "2", "3", "4", "5"}
            /\ t[n - 6] = ":"
            /\ IsDigits(SubSeq(t, n - 8, n - 7))
            /\ t[n - 8] \in {"0", "1", "2", "3", "4", "5"}
            /\ t[n - 9] = ":"
            /\ IsDigits(SubSeq(t, 1, n - 10))

(* The library of the other revision.                                      *)
OtherRevision(lib) ==
    IF detect_api_mode(lib).val.mode = "new" THEN RevisionA ELSE RevisionB

(* C10: the same request against the same caption source gives the same    *)
(* calls to the source and the same result under Revision A as under       *)
(* Revision B.                                                             *)
C10_RevisionsAgree ==
    (op \in Handlers /\ env.lib \in WorkingLibraries) =>
        LET other == try_block(args, [env EXCEPT !.lib = OtherRevision(env.lib)],
                               HandlerOf(op))
        IN  /\ calls = other.calls
            /\ out = respond(other, HandlerOf(op))

(* C10's case: a request served under Revision A that lists, translates    *)
(* and fetches.                                                            *)
C10_Witness ==
    /\ op = "fetch_transcript"
    /\ env.lib = RevisionA
    /\ out.status = 200
    /\ OpsOf(calls) = <<"list", "translate", "fetch">>
    /\ args.fields.timestamps

=============================================================================
